---- MODULE Spec2Model ----
(***************************************************************************)
(* Model of stream.py, the Streamlit "Regime Authoritarianism Explorer".   *)
(*                                                                         *)
(* Execution model.  A Streamlit page is a script that is run from its     *)
(* first line to its last on every user interaction.  Module-level names   *)
(* (df, reply, result, user_input, ...) are rebound by every run; the only *)
(* state that survives a run is the four files, st.session_state and the   *)
(* values of the widgets the run rendered.  st.button(...) and             *)
(* st.chat_input(...) return a truthy value only in the run that their own *)
(* activation triggered; in every other run they return False / None.      *)
(* Each action below is therefore one complete run of the script for one   *)
(* triggering interaction.                                                 *)
(*                                                                         *)
(* Lines 82-114 of stream.py (the chat commit block) are indented twelve   *)
(* columns, the depth of the body of `with st.spinner("Thinking...")`      *)
(* (lines 124-131), the only place where the names `reply` and             *)
(* `user_input` it reads are bound.  The model evaluates the block there.  *)
(*                                                                         *)
(* Text is a sequence of tokens (words, punctuation, number literals,      *)
(* blanks, line breaks); a file of lines is the token sequence written     *)
(* to it.                                                                  *)
(***************************************************************************)
EXTENDS Integers, Sequences, FiniteSets, TLC

VARIABLES
    scores,        \* regime_scores.csv: the rows of the persisted table
    change_log,    \* regime_change_log.csv: the text appended so far
    feedback_log,  \* regime_feedback_log.csv: the text appended so far
    vote_log,      \* vote_log.csv: the text appended so far
    chat_history,  \* st.session_state.chat_history
    rai_range,     \* value of the RAI slider
    ideo_range,    \* value of the IDEO slider
    sort_by,       \* value of the "Sort by" selectbox
    user_query,    \* value of the sidebar text area
    filtered_df,   \* the frame st.dataframe rendered: its index labels in order
    controls,      \* the conditionally rendered buttons of the last run
    messages,      \* the status messages the last run rendered
    shown_votes,   \* the (uv, dv) pair rendered for each feedback row
    last,          \* the last run: its trigger, its LLM call and how it ended
    votes_cast,    \* history: the (regime, direction) of every vote written
    ex_case,       \* extraction harness: how the input text was composed
    ex_out         \* extraction harness: <<>> or <<the extracted fields>>

vars == <<scores, change_log, feedback_log, vote_log, chat_history, rai_range,
          ideo_range, sort_by, user_query, filtered_df, controls, messages,
          shown_votes, last, votes_cast, ex_case, ex_out>>

-----------------------------------------------------------------------------
(* Text                                                                    *)

\* chr(10), a line break
NL == "NL"
\* The two characters backslash and n: what "\\n" denotes in a Python
\* (f-)string literal and what \\n matches in a raw regular expression.
BSN == "BSN"

IsSpace(t) == t \in {" ", NL}

\* The number literals that occur in the texts of the model, with float(t).
NumVal(t) ==
    CASE t = "0" -> 0
      [] t = "7" -> 7
      [] t = "8" -> 8
      [] t = "9" -> 9
      [] t = "85" -> 85
      [] t = "500000" -> 500000
      [] OTHER -> 0

IsNum(t) == t \in {"0", "7", "8", "9", "85", "500000"}

\* '.' matches any character except a line break
NoLineBreak(text, a, b) == \A k \in a..b : text[k] # NL

SetMin(S) == CHOOSE x \in S : \A y \in S : x <= y
SetMax(S) == CHOOSE x \in S : \A y \in S : x >= y

\* str.strip()
Strip(s) ==
    LET keep == {k \in 1..Len(s) : ~IsSpace(s[k])}
    IN  IF keep = {} THEN <<>> ELSE SubSeq(s, SetMin(keep), SetMax(keep))

-----------------------------------------------------------------------------
(* Extraction (lines 84-95 and 180-191)                                    *)

\* Where the number of re.search(LABEL + r".*?(-?\d+(?:\.\d+)?)", text) is found
\* from the label at i: the first number literal after i on i's line.
NumberAt(text, i) ==
    {j \in (i+1)..Len(text) : IsNum(text[j]) /\ NoLineBreak(text, i+1, j-1)}

\* float(match.group(1)) if match else None, as <<value>> or <<>>.  With
\* `signed` the pattern is -?\d+..., which takes a minus sign that stands
\* immediately before the digits; without it the sign is not captured.
NumberAfter(text, label, signed) ==
    LET starts == {i \in 1..Len(text) : text[i] = label /\ NumberAt(text, i) # {}}
    IN  IF starts = {} THEN <<>>
        ELSE LET i == SetMin(starts)
                 j == SetMin(NumberAt(text, i))
             IN  IF signed /\ j - 1 > i /\ text[j-1] = "-"
                 THEN << 0 - NumVal(text[j]) >>
                 ELSE << NumVal(text[j]) >>

\* (.*?)\\n from s: the capture ends at the first backslash-n at or after s,
\* and must not run over a line break.  0 when there is none.
CaptureEnd(text, s) ==
    LET ends == {e \in s..Len(text) : text[e] = BSN}
    IN  IF ends = {} THEN 0
        ELSE IF NoLineBreak(text, s, SetMin(ends) - 1) THEN SetMin(ends) ELSE 0

\* \s* after the colon at c: the capture may start at any s reached over blanks
\* and line breaks only.
CaptureStarts(text, c) ==
    {s \in (c+1)..(Len(text)+1) :
        /\ \A k \in (c+1)..(s-1) : IsSpace(text[k])
        /\ CaptureEnd(text, s) # 0}

\* LABEL.*?: from the label at i: a colon on i's line after which a capture exists.
ColonsAfter(text, i) ==
    {c \in (i+1)..Len(text) :
        text[c] = ":" /\ NoLineBreak(text, i+1, c-1) /\ CaptureStarts(text, c) # {}}

\* re.search(LABEL + r".*?:\s*(.*?)\\n", text, re.IGNORECASE): group(1) as
\* <<capture>>, or <<>> for no match.  Leftmost label, then the nearest colon
\* (lazy), the longest run of white space (greedy), the shortest capture (lazy).
TextAfter(text, labels) ==
    LET starts == {i \in 1..Len(text) : text[i] \in labels /\ ColonsAfter(text, i) # {}}
    IN  IF starts = {} THEN <<>>
        ELSE LET i == SetMin(starts)
                 c == SetMin(ColonsAfter(text, i))
                 s == SetMax(CaptureStarts(text, c))
             IN  << SubSeq(text, s, CaptureEnd(text, s) - 1) >>

DeathsLabels == {"Estimated Deaths", "estimated deaths"}
TaglineLabels == {"Tagline", "tagline"}

\* Lines 84-95 / 180-191: the six searches of a commit.
Extract(text) ==
    LET d == TextAfter(text, DeathsLabels)
        t == TextAfter(text, TaglineLabels)
    IN  [rai     |-> NumberAfter(text, "RAI", FALSE),
         ideo    |-> NumberAfter(text, "IDEO", TRUE),
         hdr     |-> NumberAfter(text, "HDR", FALSE),
         pbr     |-> NumberAfter(text, "PBR", FALSE),
         deaths  |-> IF d = <<>> THEN <<"Unknown">> ELSE Strip(d[1]),
         tagline |-> IF t = <<>> THEN <<"Generated by GPT">> ELSE t[1]]

\* None not in (rai, ideo, hdr, pbr)   (lines 97, 193)
AllParsed(x) == x.rai # <<>> /\ x.ideo # <<>> /\ x.hdr # <<>> /\ x.pbr # <<>>

-----------------------------------------------------------------------------
(* Texts: a reply lists labelled values, each ended by `sep`               *)

Segment(present, label, value, term) ==
    IF present THEN <<label, ":", " ">> \o value \o term ELSE <<>>

\* How a text is composed: which optional fields it lists, the sign of IDEO,
\* what ends each field (a line break, or the two characters backslash-n) and
\* whether the last field listed is ended at all.
TextCases ==
    [pbr : BOOLEAN, deaths : BOOLEAN, tagline : BOOLEAN, neg : BOOLEAN,
     sep : {NL, BSN}, closed : BOOLEAN]

TextOf(c) ==
    LET body == Segment(TRUE, "RAI", <<"85">>, <<c.sep>>)
                \o Segment(TRUE, "IDEO", IF c.neg THEN <<"-", "7">> ELSE <<"7">>, <<c.sep>>)
                \o Segment(TRUE, "HDR", <<"9">>, <<c.sep>>)
                \o Segment(c.pbr, "PBR", <<"8">>, <<c.sep>>)
                \o Segment(c.deaths, "Estimated Deaths", <<"500000">>, <<c.sep>>)
                \o Segment(c.tagline, "Tagline", <<"Iron", " ", "Fist">>, <<c.sep>>)
    IN  IF c.closed THEN body ELSE SubSeq(body, 1, Len(body) - 1)

\* The labelled values a text composed by TextOf carries.
Labelled(c) ==
    [rai     |-> <<85>>,
     ideo    |-> IF c.neg THEN <<0 - 7>> ELSE <<7>>,
     hdr     |-> <<9>>,
     pbr     |-> IF c.pbr THEN <<8>> ELSE <<>>,
     deaths  |-> IF c.deaths THEN << <<"500000">> >> ELSE <<>>,
     tagline |-> IF c.tagline THEN << <<"Iron", " ", "Fist">> >> ELSE <<>>]

-----------------------------------------------------------------------------
(* Files                                                                   *)

\* datetime.datetime.now() as it is formatted into a line
TS == "ts"

\* Line 99 / 195: text.strip()[:40]
LabelMax == 40
Label(text) ==
    LET s == Strip(text)
    IN  SubSeq(s, 1, IF Len(s) < LabelMax THEN Len(s) ELSE LabelMax)

\* str(float) for the values of the model: f"{rai}" of 85.0 is "85.0"
FloatStr(n) ==
    IF n < 0 THEN <<"-", ToString(0 - n), ".0">> ELSE <<ToString(n), ".0">>

\* Lines 98-106 / 194-202: the row of a commit
NewRow(label, x) ==
    [Regime  |-> label,
     RAI     |-> x.rai[1],
     IDEO    |-> x.ideo[1],
     HDR     |-> x.hdr[1],
     PBR     |-> x.pbr[1],
     Deaths  |-> x.deaths,
     Tagline |-> x.tagline]

\* Lines 110-111 / 206-207: what log.write appends; the literal ends in "\\n",
\* the two characters backslash and n, not in a line break.
LogLine(label, x) ==
    <<TS, ",", " ", "'">> \o label \o <<"'", ",", " ", "RAI=">> \o FloatStr(x.rai[1])
    \o <<",", " ", "IDEO=">> \o FloatStr(x.ideo[1])
    \o <<",", " ", "HDR=">> \o FloatStr(x.hdr[1])
    \o <<",", " ", "PBR=">> \o FloatStr(x.pbr[1])
    \o <<",", " ", "Deaths=">> \o x.deaths
    \o <<",", " ", "Tagline=", "'">> \o x.tagline \o <<"'", BSN>>

\* Lines 216-217: what f.write appends to the feedback log
FeedbackLine(label, rating, notes) ==
    <<TS, ",", " ", "'">> \o label \o <<"'", ",", " ", "'", rating, "'", ",", " ", "'">>
    \o notes \o <<"'", BSN>>

\* Lines 249-250 / 254-255: what v.write appends to the vote log; this literal
\* ends in "\n", a line break.
VoteLine(regime, vote) ==
    <<TS, ",", "'">> \o regime \o <<"'", ",", "'", vote, "'", NL>>

\* The positions of token `sep` in text, with 0 and Len+1 as the outer ends
RECURSIVE SplitOn(_, _)
SplitOn(text, sep) ==
    LET at == {k \in 1..Len(text) : text[k] = sep}
    IN  IF at = {} THEN <<text>>
        ELSE <<SubSeq(text, 1, SetMin(at) - 1)>>
             \o SplitOn(SubSeq(text, SetMin(at) + 1, Len(text)), sep)

\* pd.read_csv(path, header=None, names=...): one row per line, one field per
\* comma; the quote character of read_csv is the double quote, so an apostrophe
\* and a leading blank stay part of the field.
ReadCsv(file) ==
    LET lines == SelectSeq(SplitOn(file, NL), LAMBDA l : l # <<>>)
    IN  [k \in 1..Len(lines) |-> SplitOn(lines[k], ",")]

\* os.path.exists(path): a file exists once something was written to it
Exists(file) == file # <<>>

\* Lines 19-22: the frame of the run.  `scores` holds the table as read_csv
\* parses it, so the frame is the rows themselves (none for a missing file).
LoadScores(file) == file

-----------------------------------------------------------------------------
(* Filter and sort (lines 40-53)                                           *)

RaiMin == 0
RaiMax == 100
IdeoMin == 0 - 10
IdeoMax == 10

SortFields == {"RAI", "IDEO", "HDR", "PBR"}

Field(row, f) ==
    CASE f = "RAI" -> row.RAI
      [] f = "IDEO" -> row.IDEO
      [] f = "HDR" -> row.HDR
      [] f = "PBR" -> row.PBR

InRangeStrict(row, rr, ir) ==
    /\ row.RAI > rr[1] /\ row.RAI < rr[2]
    /\ row.IDEO > ir[1] /\ row.IDEO < ir[2]

\* Lines 48-50: the boolean mask of the filter
InRange(row, rr, ir) ==
    /\ row.RAI >= rr[1] /\ row.RAI <= rr[2]
    /\ row.IDEO >= ir[1] /\ row.IDEO <= ir[2]

\* The orders of the index labels in S
Orders(S) ==
    {v \in [1..Cardinality(S) -> S] : \A a, b \in 1..Cardinality(S) : a # b => v[a] # v[b]}

SortedViewsAscending(df, rr, ir, sb) ==
    LET kept == {i \in 1..Len(df) : InRange(df[i], rr, ir)}
    IN  {v \in Orders(kept) :
            \A k \in 1..(Len(v) - 1) : Field(df[v[k]], sb) <= Field(df[v[k+1]], sb)}

\* Lines 48-51: df[mask].sort_values(by=sort_by, ascending=False), as the index
\* labels of the result in order.  sort_values is called without `kind`, that is
\* with quicksort, which pandas documents as not stable: every descending order
\* of the kept rows is a possible result.
SortedViews(df, rr, ir, sb) ==
    LET kept == {i \in 1..Len(df) : InRange(df[i], rr, ir)}
    IN  {v \in Orders(kept) :
            \A k \in 1..(Len(v) - 1) : Field(df[v[k]], sb) >= Field(df[v[k+1]], sb)}

ViewWrittenBack(file, df, view) == [k \in 1..Len(view) |-> df[view[k]]]

\* Lines 45-53: the backfill of "Estimated Deaths", the filter and st.dataframe
\* work on the frame in memory; none of them writes csv_path.
ScoresAfterView(file, df, view) == file

-----------------------------------------------------------------------------
(* One run of the script                                                   *)

\* What triggered a run: the widget the user acted on, with the value entered
\* and, for a run that calls the LLM, the outcome of the call (<<>> for an
\* exception raised by client.chat.completions.create, else <<reply>>).
Trigger(kind) ==
    [kind |-> kind, rr |-> <<RaiMin, RaiMax>>, ir |-> <<IdeoMin, IdeoMax>>,
     sb |-> "RAI", text |-> <<>>, llm |-> <<>>, row |-> 0,
     rating |-> "Excellent", notes |-> <<>>]

\* st.button(name): True only in the run its own click triggered
Button(name, t) == t.kind = name

\* st.chat_input(...) (line 117): the text in the run its submission triggered,
\* else None (<<>>)
ChatInput(t) == IF t.kind = "chat_input" THEN t.text ELSE <<>>

\* Line 75
SystemPrompt == [role |-> "system", content |-> <<"You are a neutral expert">>]

\* Lines 73-76: <<>> stands for "chat_history" not in st.session_state
Seeded(h) == IF h = <<>> THEN <<SystemPrompt>> ELSE h

\* Lines 97-114 for the extracted fields x: on success the row, the whole-table
\* write and the log line.  There is no else branch.
ChatCommitWrites(df, file, clog, label, x) ==
    IF AllParsed(x)
    THEN [df |-> Append(df, NewRow(label, x)),
          scores |-> Append(df, NewRow(label, x)),
          change_log |-> clog \o LogLine(label, x),
          messages |-> {"Regime added to table."},
          added |-> TRUE]
    ELSE [df |-> df, scores |-> file, change_log |-> clog, messages |-> {},
          added |-> FALSE]

\* Lines 84-114 below the button's `if`
ChatCommitBody(df, file, clog, label, text) ==
    ChatCommitWrites(df, file, clog, label, Extract(text))

\* Lines 193-220 for the extracted fields x: the same, with st.error in the
\* else branch.
SidebarCommitWrites(df, file, clog, label, x) ==
    IF AllParsed(x)
    THEN [df |-> Append(df, NewRow(label, x)),
          scores |-> Append(df, NewRow(label, x)),
          change_log |-> clog \o LogLine(label, x),
          messages |-> {"Regime added and saved to dataset."},
          added |-> TRUE]
    ELSE [df |-> df, scores |-> file, change_log |-> clog,
          messages |-> {"Could not parse all scores from GPT output."},
          added |-> FALSE]

\* Lines 180-220 below the sidebar button's `if`
SidebarCommitBody(df, file, clog, label, text) ==
    SidebarCommitWrites(df, file, clog, label, Extract(text))

NoCommit(df, file, clog) ==
    [df |-> df, scores |-> file, change_log |-> clog, messages |-> {}, added |-> FALSE]

\* The chat section of a run without a submission (line 118 is false)
ChatIdle(h0, df, file, clog) ==
    [history |-> h0, df |-> df, scores |-> file, change_log |-> clog,
     controls |-> {}, messages |-> {}, llm |-> "none", sent |-> <<>>,
     crashed |-> FALSE]

\* Lines 129-131 with the block of lines 82-114: the reply is rendered and
\* appended, the commit button is rendered; c is the outcome of the block.
ChatReplied(h1, reply, c) ==
    [history |-> Append(h1, [role |-> "assistant", content |-> reply]),
     df |-> c.df, scores |-> c.scores, change_log |-> c.change_log,
     controls |-> {[name |-> "add_chat", text |-> reply]},
     messages |-> c.messages, llm |-> "ok", sent |-> h1, crashed |-> FALSE]

\* Lines 119-131: the user turn is appended, then the LLM is called with the
\* transcript h1.
ChatSubmitted(t, h1, user_input, df, file, clog) ==
    IF t.llm = <<>>
    \* line 125 raises and nothing catches it: the run ends here
    THEN [ChatIdle(h1, df, file, clog) EXCEPT !.llm = "fail", !.sent = h1,
                                              !.crashed = TRUE]
    ELSE ChatReplied(h1, t.llm[1],
                     IF Button("add_chat", t)
                     THEN ChatCommitBody(df, file, clog, Label(user_input), t.llm[1])
                     ELSE NoCommit(df, file, clog))

\* Lines 73-76 and 117-131 with the block of lines 82-114: the chat section.
ChatSection(t, hist, df, file, clog) ==
    IF ChatInput(t) = <<>>
    THEN ChatIdle(Seeded(hist), df, file, clog)
    ELSE ChatSubmitted(t, Append(Seeded(hist), [role |-> "user", content |-> ChatInput(t)]),
                       ChatInput(t), df, file, clog)

\* Lines 140-168: the prompt built around the query
Prompt(query) == <<"You are a neutral and rigorous expert">> \o query \o <<"Return a regime profile">>

SidebarIdle(file, clog, flog) ==
    [scores |-> file, change_log |-> clog, feedback_log |-> flog,
     controls |-> {}, messages |-> {}, llm |-> "none", sent |-> <<>>]

\* Lines 176-220: the reply arrived; c is the outcome of the commit block, fb
\* whether "Submit Feedback" (line 215) fired.
SidebarReplied(t, query, result, flog, sent, c, fb) ==
    [scores |-> c.scores,
     change_log |-> c.change_log,
     feedback_log |-> IF fb THEN flog \o FeedbackLine(Label(query), t.rating, t.notes)
                      ELSE flog,
     controls |-> {[name |-> "add_sidebar", text |-> result]}
                  \cup (IF c.added
                        THEN {[name |-> "submit_feedback", text |-> result]}
                        ELSE {}),
     messages |-> c.messages
                  \cup (IF fb THEN {"Feedback submitted. Thank you!"} ELSE {}),
     llm |-> "ok", sent |-> sent]

\* Lines 178-220: the nested buttons
SidebarCommit(t, query, result, df, file, clog, flog, sent, c) ==
    SidebarReplied(t, query, result, flog, sent, c,
                   c.added /\ Button("submit_feedback", t))

\* Lines 139-223: the sidebar section of a run.
SidebarSection(t, query, df, file, clog, flog) ==
    IF ~(Button("analyze", t) /\ query # <<>>) THEN SidebarIdle(file, clog, flog)
    ELSE IF t.llm = <<>>
         \* line 222: except Exception -> st.sidebar.error
         THEN [SidebarIdle(file, clog, flog) EXCEPT
                  !.messages = {"API call failed"}, !.llm = "fail",
                  !.sent = <<[role |-> "user", content |-> Prompt(query)]>>]
         ELSE SidebarCommit(t, query, t.llm[1], df, file, clog, flog,
                            <<[role |-> "user", content |-> Prompt(query)]>>,
                            IF Button("add_sidebar", t)
                            THEN SidebarCommitBody(df, file, clog, Label(query), t.llm[1])
                            ELSE NoCommit(df, file, clog))

Reverse(s) == [k \in 1..Len(s) |-> s[Len(s) + 1 - k]]

\* Lines 231-235 and 242-243: vote_counts.get(key, {}).get(regime, 0) over
\* vote_df.groupby(["Regime", "Vote"]).size().unstack(fill_value=0); the columns
\* of vote_counts are the values of the Vote field that occur in the log.
VoteCount(votes, regime, key) ==
    IF \E k \in 1..Len(votes) : Len(votes[k]) >= 3 /\ votes[k][3] = key
    THEN Cardinality({k \in 1..Len(votes) :
                         Len(votes[k]) >= 3 /\ votes[k][2] = regime /\ votes[k][3] = key})
    ELSE 0

\* Lines 237-257: the rows rendered, and the vote appended by the button of
\* row t.row, for the frames read at lines 228-235.
ViewerRows(t, feedback_df, votes, vlog, up, down) ==
    [shown |-> [i \in 1..Len(feedback_df) |->
                   [regime |-> feedback_df[i][2],
                    uv |-> VoteCount(votes, feedback_df[i][2], <<"Upvote">>),
                    dv |-> VoteCount(votes, feedback_df[i][2], <<"Downvote">>)]],
     vote_log |-> IF up THEN vlog \o VoteLine(feedback_df[t.row][2], "Upvote")
                  ELSE IF down THEN vlog \o VoteLine(feedback_df[t.row][2], "Downvote")
                  ELSE vlog,
     cast |-> IF up THEN <<[regime |-> feedback_df[t.row][2], vote |-> "Upvote"]>>
              ELSE IF down THEN <<[regime |-> feedback_df[t.row][2], vote |-> "Downvote"]>>
              ELSE <<>>,
     messages |-> IF up THEN {"Upvoted!"} ELSE IF down THEN {"Downvoted."} ELSE {}]

\* Lines 227-259: the feedback viewer of a run.  The vote log is read once,
\* before the rows are rendered; a vote is appended while its row is rendered.
Viewer(t, flog, vlog) ==
    IF ~Exists(flog)
    THEN [shown |-> <<>>, vote_log |-> vlog, cast |-> <<>>,
          messages |-> {"No feedback submitted yet."}]
    ELSE ViewerRows(t, Reverse(ReadCsv(flog)),
                    IF Exists(vlog) THEN ReadCsv(vlog) ELSE <<>>, vlog,
                    Button("upvote", t) /\ t.row \in 1..Len(ReadCsv(flog)),
                    Button("downvote", t) /\ t.row \in 1..Len(ReadCsv(flog)))

\* The end of a run: what it leaves in the files, the session and the page.
Finish(t, rr, ir, sb, query, view, file, chat, side, fv) ==
    /\ rai_range' = rr
    /\ ideo_range' = ir
    /\ sort_by' = sb
    /\ filtered_df' = view
    /\ chat_history' = chat.history
    /\ UNCHANGED <<ex_case, ex_out>>
    /\ IF chat.crashed
       THEN \* the exception of line 125 ends the run before line 134
            /\ scores' = file
            /\ UNCHANGED <<change_log, feedback_log, vote_log, votes_cast>>
            \* the text area was not rendered in this run; whether its
            \* value is kept depends on the Streamlit release
            /\ user_query' \in {query, <<>>}
            /\ controls' = {}
            /\ messages' = {"Traceback"}
            /\ shown_votes' = <<>>
            /\ last' = [kind |-> t.kind, llm |-> chat.llm, sent |-> chat.sent,
                        crashed |-> TRUE]
       ELSE /\ scores' = side.scores
            /\ change_log' = side.change_log
            /\ feedback_log' = side.feedback_log
            /\ vote_log' = fv.vote_log
            /\ votes_cast' = votes_cast \o fv.cast
            /\ user_query' = query
            /\ controls' = chat.controls \cup side.controls
            /\ messages' = chat.messages \cup side.messages \cup fv.messages
            /\ shown_votes' = fv.shown
            /\ last' = [kind |-> t.kind,
                        llm |-> IF chat.llm # "none" THEN chat.llm ELSE side.llm,
                        sent |-> IF chat.llm # "none" THEN chat.sent ELSE side.sent,
                        crashed |-> FALSE]

\* Lines 134-259 after the chat section
AfterChat(t, rr, ir, sb, query, view, file, chat) ==
    \E side \in {SidebarSection(t, query, chat.df, chat.scores, chat.change_log,
                                feedback_log)} :
    \E fv \in {Viewer(t, side.feedback_log, vote_log)} :
        Finish(t, rr, ir, sb, query, view, file, chat, side, fv)

\* Lines 19-259 for the widget values of the run
RunWith(t, df, rr, ir, sb, query) ==
    \E view \in SortedViews(df, rr, ir, sb) :
    \E file \in {ScoresAfterView(scores, df, view)} :
    \E chat \in {ChatSection(t, chat_history, df, file, change_log)} :
        AfterChat(t, rr, ir, sb, query, view, file, chat)

\* The whole script for the interaction t: a widget has the value the user
\* gave it in this interaction, else the value it had.
Run(t) ==
    RunWith(t, LoadScores(scores),
            IF t.kind = "filters" THEN t.rr ELSE rai_range,
            IF t.kind = "filters" THEN t.ir ELSE ideo_range,
            IF t.kind = "filters" THEN t.sb ELSE sort_by,
            IF t.kind = "query_edit" THEN t.text ELSE user_query)

-----------------------------------------------------------------------------
(* Bounds and inputs                                                       *)

\* Most rows of a scores table at start-up (view specification)
MaxRows == 3
\* Most chat submissions of a session
MaxTurns == 2
\* Most votes written
MaxVotes == 2

ScoreRow(name, rai, ideo, hdr, pbr) ==
    [Regime |-> <<name>>, RAI |-> rai, IDEO |-> ideo, HDR |-> hdr, PBR |-> pbr,
     Deaths |-> <<"Unknown">>, Tagline |-> <<"Generated by GPT">>]

\* Rows a scores table may hold at start-up.  X and Y tie on RAI and PBR, X and
\* Z on HDR, Y and Z on IDEO.
SeedRows ==
    {ScoreRow("X", 50, 0 - 5, 9, 8), ScoreRow("Y", 50, 5, 3, 8),
     ScoreRow("Z", 90, 5, 9, 2)}

Tables(n) == UNION {[1..k -> SeedRows] : k \in 0..n}

RaiRanges == {<<RaiMin, RaiMax>>, <<50, 89>>}
IdeoRanges == {<<IdeoMin, IdeoMax>>, <<0, 5>>}

\* A feedback log in the format of its lines, one entry per line
FeedbackEntry(regime, rating, notes) ==
    <<TS, ",", " ", "'">> \o regime \o <<"'", ",", " ", "'", rating, "'", ",", " ", "'">>
    \o notes \o <<"'", NL>>

FeedbackLogs ==
    {<<>>,
     FeedbackEntry(<<"A">>, "Good", <<"fine">>) \o FeedbackEntry(<<"A">>, "Poor", <<>>)}

\* Replies of the LLM: a profile with every field on a line of its own, and the
\* same without PBR
ReplyFull ==
    TextOf([pbr |-> TRUE, deaths |-> TRUE, tagline |-> TRUE, neg |-> FALSE,
            sep |-> NL, closed |-> TRUE])
ReplyNoPBR ==
    TextOf([pbr |-> FALSE, deaths |-> TRUE, tagline |-> TRUE, neg |-> FALSE,
            sep |-> NL, closed |-> TRUE])

\* Outcomes of a call of client.chat.completions.create
LlmOutcomes == {<<>>, <<ReplyFull>>, <<ReplyNoPBR>>}

ChatTexts == {<<"A">>}
Queries == {<<>>, <<"Q">>}

UserTurns(h) == Cardinality({k \in 1..Len(h) : h[k].role = "user"})

-----------------------------------------------------------------------------
(* Interactions                                                            *)

\* The page has been rendered at least once
Rendered == last.kind # "none"

\* Opening the page, or a rerun without a widget change
PageRun == Run(Trigger("rerun"))

\* Moving a slider or choosing a sort field (lines 40-42)
SetFilters(rr, ir, sb) ==
    /\ Rendered
    /\ <<rr, ir, sb>> # <<rai_range, ideo_range, sort_by>>
    /\ Run([Trigger("filters") EXCEPT !.rr = rr, !.ir = ir, !.sb = sb])

\* Submitting a chat message (line 117); llm is the outcome of line 125
ChatSubmit(text, llm) ==
    /\ Rendered
    /\ UserTurns(chat_history) < MaxTurns
    /\ Run([Trigger("chat_input") EXCEPT !.text = text, !.llm = llm])

\* Clicking "Add to Regime Table" (line 82)
ClickAddChat ==
    /\ \E c \in controls : c.name = "add_chat"
    /\ Run(Trigger("add_chat"))

\* Editing the sidebar text area (line 137)
EditQuery(q) ==
    /\ Rendered /\ ~last.crashed
    /\ q # user_query
    /\ Run([Trigger("query_edit") EXCEPT !.text = q])

\* Clicking "Analyze with GPT" (line 139); llm is the outcome of line 173
ClickAnalyze(llm) ==
    /\ Rendered /\ ~last.crashed
    /\ Run([Trigger("analyze") EXCEPT !.llm = llm])

\* Clicking "Add Regime to Table" (line 178)
ClickAddSidebar ==
    /\ \E c \in controls : c.name = "add_sidebar"
    /\ Run(Trigger("add_sidebar"))

\* Clicking the upvote or downvote button of feedback row i (lines 248, 253)
ClickVote(i, kind) ==
    /\ i \in 1..Len(shown_votes)
    /\ Len(votes_cast) < MaxVotes
    /\ Run([Trigger(kind) EXCEPT !.row = i])

\* The six searches applied to the text of the harness
DoExtract ==
    /\ ex_out = <<>>
    /\ ex_out' = <<Extract(TextOf(ex_case))>>
    /\ UNCHANGED <<scores, change_log, feedback_log, vote_log, chat_history,
                   rai_range, ideo_range, sort_by, user_query, filtered_df,
                   controls, messages, shown_votes, last, votes_cast, ex_case>>

-----------------------------------------------------------------------------
(* Specifications                                                          *)

StartWith(tables, flogs, cases) ==
    /\ scores \in tables
    /\ change_log = <<>>
    /\ feedback_log \in flogs
    /\ vote_log = <<>>
    /\ chat_history = <<>>
    /\ rai_range = <<RaiMin, RaiMax>>
    /\ ideo_range = <<IdeoMin, IdeoMax>>
    /\ sort_by = "RAI"
    /\ user_query = <<>>
    /\ filtered_df = <<>>
    /\ controls = {}
    /\ messages = {}
    /\ shown_votes = <<>>
    /\ last = [kind |-> "none", llm |-> "none", sent |-> <<>>, crashed |-> FALSE]
    /\ votes_cast = <<>>
    /\ ex_case \in cases
    /\ ex_out = <<>>

OneCase ==
    {[pbr |-> TRUE, deaths |-> TRUE, tagline |-> TRUE, neg |-> FALSE, sep |-> BSN,
      closed |-> TRUE]}

\* The session: every interaction, over a table of two rows or none
Init ==
    StartWith({<<>>, <<ScoreRow("X", 50, 0 - 5, 9, 8), ScoreRow("Z", 90, 5, 9, 2)>>},
              FeedbackLogs, OneCase)

Next ==
    \/ PageRun
    \/ \E rr \in {<<RaiMin, RaiMax>>, <<51, RaiMax>>} : SetFilters(rr, <<IdeoMin, IdeoMax>>, "RAI")
    \/ \E text \in ChatTexts, llm \in LlmOutcomes : ChatSubmit(text, llm)
    \/ ClickAddChat
    \/ \E q \in Queries : EditQuery(q)
    \/ \E llm \in LlmOutcomes : ClickAnalyze(llm)
    \/ ClickAddSidebar
    \/ \E i \in 1..2, kind \in {"upvote", "downvote"} : ClickVote(i, kind)

Spec == Init /\ [][Next]_vars

\* The filtered view: every table of at most MaxRows rows, every selection
ViewInit == StartWith(Tables(MaxRows), {<<>>}, OneCase)

ViewNext ==
    \/ PageRun
    \/ \E rr \in RaiRanges, ir \in IdeoRanges, sb \in SortFields : SetFilters(rr, ir, sb)

ViewSpec == ViewInit /\ [][ViewNext]_vars

\* The extraction as a function of the text
ExtractInit == StartWith({<<>>}, {<<>>}, TextCases)

ExtractNext == DoExtract

ExtractSpec == ExtractInit /\ [][ExtractNext]_vars

-----------------------------------------------------------------------------
(* Properties                                                              *)

CommitControls == {"add_chat", "add_sidebar"}

StoresUnchanged ==
    /\ scores' = scores
    /\ change_log' = change_log
    /\ feedback_log' = feedback_log
    /\ vote_log' = vote_log

\* C1: activating a commit control on a reply whose RAI, IDEO, HDR and PBR all
\* parse appends exactly one row to the scores table and one line to the change
\* log, whatever the number of rows already present.
C1_CommitAppendsOneRow ==
    [][\A c \in controls :
          (c.name \in CommitControls /\ last'.kind = c.name /\ AllParsed(Extract(c.text)))
          => /\ Len(scores') = Len(scores) + 1
             /\ SubSeq(scores', 1, Len(scores)) = scores
             /\ Len(change_log') > Len(change_log)
             /\ SubSeq(change_log', 1, Len(change_log)) = change_log]_vars

\* C2: activating a commit control on a reply from which one of RAI, IDEO, HDR,
\* PBR cannot be extracted leaves the scores table and the change log unchanged
\* and reports the failure to the user.
C2_IncompleteCommitReported ==
    [][\A c \in controls :
          (c.name \in CommitControls /\ last'.kind = c.name /\ ~AllParsed(Extract(c.text)))
          => /\ scores' = scores
             /\ change_log' = change_log
             /\ "Could not parse all scores from GPT output." \in messages']_vars

\* C3: when the remote LLM call fails, in the chat as in the structured query,
\* the failure does not propagate out of the call site: an error is rendered,
\* and the transcript and the four stores are as before the submission.
C3_LlmFailureContained ==
    [][last'.llm = "fail"
          => /\ ~last'.crashed
             /\ "API call failed" \in messages'
             /\ chat_history' = chat_history
             /\ StoresUnchanged]_vars

\* The votes written so far for a regime in a direction
CastCount(cast, regime, vote) ==
    Cardinality({k \in 1..Len(cast) : cast[k].regime = regime /\ cast[k].vote = vote})

\* C4: for every feedback row rendered, the upvote count shown equals the
\* number of vote-log lines, as written by the viewer's own vote buttons before
\* the run read the log, for that row's regime with direction Upvote, and
\* likewise for Downvote; with no vote log both counts are 0.
C4_VoteCountsShown ==
    [][\A i \in 1..Len(shown_votes') :
          /\ shown_votes'[i].uv = CastCount(votes_cast, shown_votes'[i].regime, "Upvote")
          /\ shown_votes'[i].dv = CastCount(votes_cast, shown_votes'[i].regime, "Downvote")]_vars

ViewRows == {filtered_df[k] : k \in 1..Len(filtered_df)}

\* C5: the filtered view holds exactly the rows of the table with
\* a <= RAI <= b and c <= IDEO <= d for the selections [a,b] and [c,d]: none
\* outside the bounds, none inside them dropped, none twice.
C5_FilterExact ==
    Rendered =>
        /\ ViewRows = {i \in 1..Len(scores) :
                          /\ rai_range[1] <= scores[i].RAI /\ scores[i].RAI <= rai_range[2]
                          /\ ideo_range[1] <= scores[i].IDEO /\ scores[i].IDEO <= ideo_range[2]}
        /\ Cardinality(ViewRows) = Len(filtered_df)

\* A view after a selection other than the default one, in which a row on the
\* lower RAI bound is kept and another row of the table is dropped
C5_Witness ==
    /\ last.kind = "filters"
    /\ rai_range # <<RaiMin, RaiMax>>
    /\ \E i \in ViewRows : scores[i].RAI = rai_range[1]
    /\ \E i \in 1..Len(scores) : i \notin ViewRows

Descending ==
    \A k \in 1..(Len(filtered_df) - 1) :
        Field(scores[filtered_df[k]], sort_by) >= Field(scores[filtered_df[k+1]], sort_by)

\* C6 as stated: the view is ordered descending by the sort field, and rows
\* with equal values of the sort field keep the order they had in the table.
C6_DescendingStable ==
    Rendered =>
        /\ Descending
        /\ \A k \in 1..(Len(filtered_df) - 1) :
              Field(scores[filtered_df[k]], sort_by) = Field(scores[filtered_df[k+1]], sort_by)
              => filtered_df[k] < filtered_df[k+1]

\* C6 as amended: for every sort field the view is ordered descending by that
\* field (each row's value >= the next row's value); the relative order of rows
\* with equal values of the sort field is not determined.
C6_Descending == Rendered => Descending

\* A view sorted by a field other than the default that puts a later row of
\* the table before an earlier one
C6_Witness ==
    /\ last.kind = "filters"
    /\ sort_by = "HDR"
    /\ Len(filtered_df) >= 2
    /\ filtered_df[1] > filtered_df[2]
    /\ Field(scores[filtered_df[1]], sort_by) > Field(scores[filtered_df[2]], sort_by)

\* C7: in the structured query action the feedback capture follows a
\* successful commit: once the commit control has been activated on a result
\* whose four scores parse, the feedback form is offered for submission, and a
\* feedback entry is appended only by a submission of that form.
C7_FeedbackAfterCommit ==
    [][/\ \A c \in controls :
             (c.name = "add_sidebar" /\ last'.kind = c.name /\ AllParsed(Extract(c.text)))
             => \E d \in controls' : d.name = "submit_feedback"
       /\ feedback_log' # feedback_log => last'.kind = "submit_feedback"]_vars

\* C8: the persisted scores table only grows: across every interaction each
\* row is still present, unchanged and in the same position, and the row count
\* does not decrease.
C8_ScoresOnlyGrow ==
    [][/\ Len(scores') >= Len(scores)
       /\ SubSeq(scores', 1, Len(scores)) = scores]_vars

\* A commit control has been activated over a table of two rows while a
\* filter hides one of them
C8_Witness ==
    /\ last.kind \in CommitControls
    /\ Len(scores) = 2
    /\ Len(filtered_df) = 1

\* C9: extraction of a text returns the labelled values: the numeric fields as
\* the number after the label, Estimated Deaths and Tagline as the text after
\* the label's colon; a numeric field whose label is absent is reported absent,
\* and Deaths / Tagline take their defaults only when their label is absent.
C9_ExtractsLabelledValues ==
    ex_out # <<>> =>
        /\ ex_out[1].rai = Labelled(ex_case).rai
        /\ ex_out[1].ideo = Labelled(ex_case).ideo
        /\ ex_out[1].hdr = Labelled(ex_case).hdr
        /\ ex_out[1].pbr = Labelled(ex_case).pbr
        /\ ex_out[1].deaths = (IF Labelled(ex_case).deaths = <<>> THEN <<"Unknown">>
                               ELSE Labelled(ex_case).deaths[1])
        /\ ex_out[1].tagline = (IF Labelled(ex_case).tagline = <<>> THEN <<"Generated by GPT">>
                                ELSE Labelled(ex_case).tagline[1])

\* C10: the transcript is one system instruction at position 0 followed by
\* turns that strictly alternate user, assistant, every submission having added
\* one user turn followed by one assistant turn.
C10_TranscriptAlternates ==
    chat_history # <<>> =>
        /\ chat_history[1] = SystemPrompt
        /\ Len(chat_history) % 2 = 1
        /\ \A k \in 2..Len(chat_history) :
              chat_history[k].role = (IF k % 2 = 0 THEN "user" ELSE "assistant")

====
